---- MODULE Spec2Model ----
(***************************************************************************)
(* State synchronisation of the network operator: the two State            *)
(* implementations stateSriovDp (SR-IOV device plugin, driven by a         *)
(* NicClusterPolicy) and stateHostDeviceNetwork (driven by a               *)
(* HostDeviceNetwork), their collaborators (InfoCatalog, Renderer, the     *)
(* cluster API behind stateSkel) and the cluster's object store.           *)
(*                                                                         *)
(* One Sync call is one action.  Every answer a collaborator gives during  *)
(* the call (is there a node-info provider, how many nodes match, what     *)
(* the Renderer returns, which API call is rejected) is an input of the    *)
(* action; every call Sync makes is appended to the call log of the        *)
(* result, in program order.                                               *)
(***************************************************************************)
EXTENDS Integers, Sequences, FiniteSets, TLC

VARIABLES
    cluster,    \* the cluster's object store: object key -> stored object
    lastSync,   \* the Sync call that has just returned: state type, argument, result
    watchSources,   \* what the last GetWatchSources call returned, and of which state
    passes      \* the Sync passes that run concurrently, each with its position

vars == <<cluster, lastSync, watchSources, passes>>

-----------------------------------------------------------------------------
(* Bounds of the model *)

\* longest sequence of objects the Renderer returns
MaxObjs == 2
\* most node records the node-info provider returns
MaxNodes == 1

-----------------------------------------------------------------------------
(* SyncState verdicts *)

SyncStateReady == "ready"
SyncStateNotReady == "notReady"
SyncStateIgnore == "ignore"
SyncStateError == "error"
SyncStates == {SyncStateReady, SyncStateNotReady, SyncStateIgnore, SyncStateError}

-----------------------------------------------------------------------------
(* Go error values: nil, or the chain of messages from the outermost wrap  *)
(* to the root cause.                                                      *)

Nil == <<>>

New(msg) == <<msg>>

\* errors.Wrap returns nil when the wrapped error is nil
Wrap(err, msg) == IF err = Nil THEN Nil ELSE <<msg>> \o err

-----------------------------------------------------------------------------
(* Custom resources *)

NilPtr == "nil"

NicClusterPolicies ==
    [kind : {"NicClusterPolicy"}, name : {"nic-cluster-policy"}, uid : {"uid-ncp"},
     SriovDevicePlugin : {NilPtr, "devicePluginSpec"},
     OFEDDriver : {NilPtr, "ofedDriverSpec"}]

\* strings that the code takes apart are sequences of characters
resourceNamePrefix == <<"n", "v", "i", "d", "i", "a", ".", "c", "o", "m", "/">>

ResourceNames == {<<"i", "b", "0">>, resourceNamePrefix \o <<"i", "b", "0">>}

HostDeviceNetworks ==
    [kind : {"HostDeviceNetwork"}, name : {"hostdev-net"}, uid : {"uid-hdn"},
     ResourceName : ResourceNames]

NoCR == [kind |-> "none", name |-> "", uid |-> ""]

-----------------------------------------------------------------------------
(* Structured objects and the cluster's object store *)

Kinds == {"DaemonSet", "NetworkAttachmentDefinition", "ConfigMap"}

\* the kinds the status aggregator has a readiness predicate for
KnownKinds == {"DaemonSet", "NetworkAttachmentDefinition"}

NoOwner == [kind |-> "", name |-> "", uid |-> "", controller |-> FALSE]

OwnerRefOf(cr) == [kind |-> cr.kind, name |-> cr.name, uid |-> cr.uid, controller |-> TRUE]

\* what the Renderer can return: objects fresh from the templates, not yet owned
RenderableObjs == [kind : Kinds, name : {"obj"}, owner : {NoOwner}]

Key(obj) == [kind |-> obj.kind, name |-> obj.name]

ObjKeys == {Key(o) : o \in RenderableObjs}

Conditions == {"ready", "notReady", "error"}

Absent == [exists |-> FALSE, owner |-> NoOwner, status |-> "notReady"]

SeqsUpTo(S, n) == UNION {[1..m -> S] : m \in 0..n}

-----------------------------------------------------------------------------
(* The call log *)

Ev(op, idx, ok) == [op |-> op, idx |-> idx, ok |-> ok]

Ops(log) == {log[i].op : i \in 1..Len(log)}

Failed(log, op) == \E i \in 1..Len(log) : log[i].op = op /\ ~log[i].ok

Succeeded(log, op) == \E i \in 1..Len(log) : log[i].op = op /\ log[i].ok

WriteOps == {"Create", "Update"}

ApiOps == {"Get", "Create", "Update"}

-----------------------------------------------------------------------------
(* Collaborators' answers during one Sync call *)

NoFault == [stage |-> "none", idx |-> 0]

\* the call that fails: the ownership hook, the Get or the Create/Update of the
\* object at idx, the aggregator's status read, or the re-read of the primary object
Faults(n) ==
    {NoFault}
      \cup [stage : {"hook", "get", "write"}, idx : 1..n]
      \cup [stage : {"status", "getObj"}, idx : {0}]

FailsAt(fault, stage, i) == fault.stage = stage /\ fault.idx = i

RenderFailure == [ok |-> FALSE, objs |-> <<>>]

Rendered(objs) == [ok |-> TRUE, objs |-> objs]

-----------------------------------------------------------------------------
(* stateSkel: the cluster API helpers shared by the states *)

\* controllerutil.SetControllerReference(cr, obj, scheme): refuses an object that
\* another controller already owns, else stamps the controller owner reference
SetControllerReference(cr, obj, fails) ==
    IF fails
    THEN [err |-> New("cannot set controller reference"), obj |-> obj]
    ELSE IF obj.owner # NoOwner /\ obj.owner # OwnerRefOf(cr)
    THEN [err |-> New("object is already owned by another controller"), obj |-> obj]
    ELSE [err |-> Nil, obj |-> [obj EXCEPT !.owner = OwnerRefOf(cr)]]

\* mutant: an update in place stores the object without its owner reference
Stored_UpdateDropsOwner(c, obj) ==
    [exists |-> TRUE,
     owner |-> IF c[Key(obj)].exists THEN NoOwner ELSE obj.owner,
     status |-> IF c[Key(obj)].exists THEN c[Key(obj)].status ELSE "notReady"]

\* the object as stored by a create (no status yet) or by an update in place
\* (the status, which the renderer does not own, is kept)
Stored(c, obj) ==
    [exists |-> TRUE,
     owner |-> obj.owner,
     status |-> IF c[Key(obj)].exists THEN c[Key(obj)].status ELSE "notReady"]

\* one object of the batch: hook, then Get, then Create or Update.
\* setControllerReference[i] is what the caller's hook does to the i-th object.
createOrUpdateObj(setControllerReference, p, obj, i, fault) ==
    LET h == setControllerReference[i]
        hooked == p.log \o <<Ev("SetControllerReference", i, h.err = Nil)>>
        got == hooked \o <<Ev("Get", i, ~FailsAt(fault, "get", i))>>
        write == IF p.cluster[Key(obj)].exists THEN "Update" ELSE "Create"
        written == got \o <<Ev(write, i, ~FailsAt(fault, "write", i))>>
    IN  IF h.err # Nil
        THEN [err |-> Wrap(h.err, "failed to create resource"),
              cluster |-> p.cluster, log |-> hooked]
        ELSE IF FailsAt(fault, "get", i)
        THEN [err |-> New("failed to get current k8s object"),
              cluster |-> p.cluster, log |-> got]
        ELSE IF FailsAt(fault, "write", i)
        THEN [err |-> New("failed to create/update k8s object"),
              cluster |-> p.cluster, log |-> written]
        ELSE [err |-> Nil,
              cluster |-> [p.cluster EXCEPT ![Key(obj)] = Stored(p.cluster, h.obj)],
              log |-> written]

\* mutant: the batch goes on after a failure and reports the first error at the end
createOrUpdateObjs_NoShortCircuit(setControllerReference, c, objs, fault) ==
    LET step[i \in 0..Len(objs)] ==
            IF i = 0
            THEN [err |-> Nil, cluster |-> c, log |-> <<>>]
            ELSE LET r == createOrUpdateObj(setControllerReference, step[i - 1], objs[i], i, fault)
                 IN  [r EXCEPT !.err = IF step[i - 1].err # Nil THEN step[i - 1].err ELSE r.err]
    IN  step[Len(objs)]

\* the batch, in the given order, stopping at the first failure
createOrUpdateObjs(setControllerReference, c, objs, fault) ==
    LET step[i \in 0..Len(objs)] ==
            IF i = 0
            THEN [err |-> Nil, cluster |-> c, log |-> <<>>]
            ELSE IF step[i - 1].err # Nil
            THEN step[i - 1]
            ELSE createOrUpdateObj(setControllerReference, step[i - 1], objs[i], i, fault)
    IN  step[Len(objs)]

\* the per-kind readiness predicate, read from the live object
ObjCondition(c, obj) ==
    IF obj.kind \notin KnownKinds THEN "ready"
    ELSE IF ~c[Key(obj)].exists THEN "notReady"
    ELSE c[Key(obj)].status

\* the status aggregator: a pass over the rendered set
getSyncState(c, objs, fault) ==
    LET acc[i \in 0..Len(objs)] ==
            IF i = 0 THEN SyncStateReady
            ELSE LET cond == ObjCondition(c, objs[i])
                 IN  IF acc[i - 1] = SyncStateError \/ cond = "error" THEN SyncStateError
                     ELSE IF cond = "notReady" THEN SyncStateNotReady
                     ELSE acc[i - 1]
    IN  IF fault.stage = "status"
        THEN [state |-> SyncStateNotReady, err |-> New("failed to read object status"),
              log |-> <<Ev("getSyncState", 0, FALSE)>>]
        ELSE [state |-> acc[Len(objs)], err |-> Nil,
              log |-> <<Ev("getSyncState", 0, TRUE)>>]

\* re-read of one object from the cluster
getObj(c, obj, fault) ==
    IF fault.stage = "getObj" \/ ~c[Key(obj)].exists
    THEN [err |-> New("failed to get object"), log |-> <<Ev("getObj", 1, FALSE)>>]
    ELSE [err |-> Nil, log |-> <<Ev("getObj", 1, TRUE)>>]

\* no render data was handed to the Renderer
NoRenderData == [RuntimeSpec |-> "none"]

\* what a Sync call leaves behind: verdict, error, call log, cluster, and the
\* render data and rendered set of its manifest
Result(verdict, err, log, c, m) ==
    [verdict |-> verdict, err |-> err, log |-> log, cluster |-> c,
     objs |-> m.objs, data |-> m.data]

NoManifest == [objs |-> <<>>, data |-> NoRenderData]

\* a run-time panic inside Sync: the call does not return a SyncState
Panicked == "panic"

\* x.(*T) in its one-result form, on a value that is not a *T
TypeAssertionPanic(c) == Result(Panicked, Nil, <<>>, c, NoManifest)

-----------------------------------------------------------------------------
(* stateSriovDp: the SR-IOV device plugin state *)

\* the environment of one Sync call of stateSriovDp: only the answers the call
\* can ask for
NodeAttributes == [OSName : {"ubuntu"}]

NothingAsked ==
    [provider |-> FALSE, attrs |-> <<>>, render |-> RenderFailure, fault |-> NoFault]

SriovDpEnvs ==
    {NothingAsked}
      \cup {[provider |-> TRUE, attrs |-> a, render |-> RenderFailure, fault |-> NoFault] :
               a \in SeqsUpTo(NodeAttributes, MaxNodes)}
      \cup {[provider |-> TRUE, attrs |-> a, render |-> Rendered(e[1]), fault |-> e[2]] :
               a \in SeqsUpTo(NodeAttributes, MaxNodes) \ {<<>>},
               e \in {x \in SeqsUpTo(RenderableObjs, MaxObjs) \X Faults(MaxObjs) :
                        /\ x[2].idx <= Len(x[1])
                        /\ x[2].stage # "getObj"
                        /\ Len(x[1]) = 0 => x[2] = NoFault}}

\* mutant: the nil check of the device plugin spec is dropped
SriovDpNotRequired_Never(cr) == FALSE

SriovDpNotRequired(cr) == cr.SriovDevicePlugin = NilPtr

SriovDpNoNodes(attrs) == Len(attrs) = 0

NetworkOperatorResourceNamespace == "nvidia-network-operator-resources"

SriovDpRenderData(cr, attrs) ==
    [CrSpec |-> cr.SriovDevicePlugin,
     DeployInitContainer |-> cr.OFEDDriver # NilPtr,
     RuntimeSpec |-> [Namespace |-> NetworkOperatorResourceNamespace,
                      OSName |-> attrs[1].OSName]]

stateSriovDp_getManifestObjects(cr, env) ==
    LET asked == <<Ev("GetNodesAttributes", Len(env.attrs), TRUE)>>
    IN  IF SriovDpNoNodes(env.attrs)
        THEN [objs |-> <<>>, data |-> NoRenderData, err |-> Nil, log |-> asked]
        ELSE IF ~env.render.ok
        THEN [objs |-> <<>>, data |-> SriovDpRenderData(cr, env.attrs),
              err |-> Wrap(New("render failure"), "failed to render objects"),
              log |-> asked \o <<Ev("RenderObjects", 0, FALSE)>>]
        ELSE [objs |-> env.render.objs, data |-> SriovDpRenderData(cr, env.attrs),
              err |-> Nil,
              log |-> asked \o <<Ev("RenderObjects", Len(env.render.objs), TRUE)>>]

\* mutant: the hook reports success without stamping the object
SriovDpSetControllerReference_NoStamp(cr, obj, fails) == [err |-> Nil, obj |-> obj]

SriovDpSetControllerReference(cr, obj, fails) ==
    LET r == SetControllerReference(cr, obj, fails)
    IN  [err |-> Wrap(r.err, "failed to set controller reference for object"),
         obj |-> r.obj]

\* mutant: a missing provider is reported like the other early returns
SriovDpNoProvider_NotReady == [verdict |-> SyncStateNotReady, err |-> Nil]

SriovDpNoProvider ==
    [verdict |-> SyncStateError,
     err |-> New("unexpected state, catalog does not provide node information")]

SriovDpManifestError(err) ==
    [verdict |-> SyncStateNotReady,
     err |-> Wrap(err, "failed to create k8s objects from manifest")]

\* mutant: nothing to apply is reported as Error, as the host-device state does
SriovDpNoObjects_AsError == [verdict |-> SyncStateError, err |-> Nil]

SriovDpNoObjects == [verdict |-> SyncStateNotReady, err |-> Nil]

SriovDpApplyError(err) ==
    [verdict |-> SyncStateNotReady, err |-> Wrap(err, "failed to create/update objects")]

\* mutant: a failed status read is reported as Error
SriovDpSyncStateError_AsError(err) ==
    [verdict |-> SyncStateError, err |-> Wrap(err, "failed to get sync state")]

SriovDpSyncStateError(err) ==
    [verdict |-> SyncStateNotReady, err |-> Wrap(err, "failed to get sync state")]

\* mutant: Ready is returned whatever the aggregator says
SriovDpSynced_AlwaysReady(syncState) == [verdict |-> SyncStateReady, err |-> Nil]

SriovDpSynced(syncState) == [verdict |-> syncState, err |-> Nil]

\* mutant: the objects created for the custom resource are removed when the
\* device plugin is no longer asked for
SriovDpIgnore_Removes(c, cr) ==
    Result(SyncStateIgnore, Nil, <<>>,
           [k \in ObjKeys |-> IF c[k].owner = OwnerRefOf(cr) THEN Absent ELSE c[k]],
           NoManifest)

\* nothing to do: nothing is called, nothing is removed
SriovDpIgnore(c, cr) == Result(SyncStateIgnore, Nil, <<>>, c, NoManifest)

stateSriovDp_Sync(c, cr, env) ==
    IF cr.kind # "NicClusterPolicy"
    THEN TypeAssertionPanic(c)
    ELSE
    IF SriovDpNotRequired(cr)
    THEN SriovDpIgnore(c, cr)
    ELSE
    LET asked == <<Ev("GetNodeInfoProvider", 0, env.provider)>>
        m == stateSriovDp_getManifestObjects(cr, env)
        a == createOrUpdateObjs(
                 [i \in 1..Len(m.objs) |->
                    SriovDpSetControllerReference(
                        cr, m.objs[i], FailsAt(env.fault, "hook", i))],
                 c, m.objs, env.fault)
        s == getSyncState(a.cluster, m.objs, env.fault)
    IN  IF ~env.provider
        THEN Result(SriovDpNoProvider.verdict, SriovDpNoProvider.err, asked, c, NoManifest)
        ELSE IF m.err # Nil
        THEN Result(SriovDpManifestError(m.err).verdict, SriovDpManifestError(m.err).err,
                    asked \o m.log, c, m)
        ELSE IF Len(m.objs) = 0
        THEN Result(SriovDpNoObjects.verdict, SriovDpNoObjects.err,
                    asked \o m.log, c, m)
        ELSE IF a.err # Nil
        THEN Result(SriovDpApplyError(a.err).verdict, SriovDpApplyError(a.err).err,
                    asked \o m.log \o a.log, a.cluster, m)
        ELSE IF s.err # Nil
        THEN Result(SriovDpSyncStateError(s.err).verdict, SriovDpSyncStateError(s.err).err,
                    asked \o m.log \o a.log \o s.log, a.cluster, m)
        ELSE Result(SriovDpSynced(s.state).verdict, SriovDpSynced(s.state).err,
                    asked \o m.log \o a.log \o s.log, a.cluster, m)

-----------------------------------------------------------------------------
(* stateHostDeviceNetwork: the host-device network state *)

HostDevEnvs ==
    {[render |-> RenderFailure, fault |-> NoFault]}
      \cup {[render |-> Rendered(e[1]), fault |-> e[2]] :
               e \in {x \in SeqsUpTo(RenderableObjs, MaxObjs) \X Faults(MaxObjs) :
                        /\ x[2].idx <= Len(x[1])
                        /\ (Len(x[1]) = 0 \/ x[1][1].kind # "NetworkAttachmentDefinition")
                             => x[2] = NoFault}}

HasPrefix(str, prefix) ==
    Len(str) >= Len(prefix) /\ SubSeq(str, 1, Len(prefix)) = prefix

\* mutant: the prefix is prepended without looking at the name
HostDevResourceName_AlwaysPrepend(cr) == resourceNamePrefix \o cr.ResourceName

HostDevResourceName(cr) ==
    IF ~HasPrefix(cr.ResourceName, resourceNamePrefix)
    THEN resourceNamePrefix \o cr.ResourceName
    ELSE cr.ResourceName

HostDevRenderData(cr) ==
    [HostDeviceNetworkName |-> cr.name,
     CrSpec |-> [ResourceName |-> cr.ResourceName],
     RuntimeSpec |-> [Namespace |-> NetworkOperatorResourceNamespace],
     ResourceName |-> HostDevResourceName(cr)]

stateHostDeviceNetwork_getManifestObjects(cr, env) ==
    IF ~env.render.ok
    THEN [objs |-> <<>>, data |-> HostDevRenderData(cr),
          err |-> Wrap(New("render failure"), "failed to render objects"),
          log |-> <<Ev("RenderObjects", 0, FALSE)>>]
    ELSE [objs |-> env.render.objs, data |-> HostDevRenderData(cr), err |-> Nil,
          log |-> <<Ev("RenderObjects", Len(env.render.objs), TRUE)>>]

HostDevSetControllerReference(cr, obj, fails) ==
    LET r == SetControllerReference(cr, obj, fails)
    IN  [err |-> Wrap(r.err, "failed to set controller reference for object"),
         obj |-> r.obj]

HostDevRenderError(err) ==
    [verdict |-> SyncStateError, err |-> Wrap(err, "failed to render HostDeviceNetwork")]

\* err is the nil error of the successful render
HostDevNoObjects(err) ==
    [verdict |-> SyncStateError, err |-> Wrap(err, "no rendered objects found")]

\* mutant: a render result without a leading NetworkAttachmentDefinition is NotReady
HostDevNoNetAttDef_NotReady(err) ==
    [verdict |-> SyncStateNotReady,
     err |-> Wrap(err, "no NetworkAttachmentDefinition object found")]

HostDevNoNetAttDef(err) ==
    [verdict |-> SyncStateError,
     err |-> Wrap(err, "no NetworkAttachmentDefinition object found")]

\* mutant: an apply failure is reported as Error
HostDevApplyError_AsError(err) ==
    [verdict |-> SyncStateError, err |-> Wrap(err, "failed to create/update objects")]

HostDevApplyError(err) ==
    [verdict |-> SyncStateNotReady, err |-> Wrap(err, "failed to create/update objects")]

HostDevSyncStateError(err) ==
    [verdict |-> SyncStateNotReady, err |-> Wrap(err, "failed to get sync state")]

HostDevGetObjError(err) ==
    [verdict |-> SyncStateError,
     err |-> Wrap(err, "failed to get NetworkAttachmentDefinition")]

\* mutant: NotReady is returned whatever the aggregator says
HostDevSynced_AlwaysNotReady(syncState) == [verdict |-> SyncStateNotReady, err |-> Nil]

HostDevSynced(syncState) == [verdict |-> syncState, err |-> Nil]

stateHostDeviceNetwork_Sync(c, cr, env) ==
    IF cr.kind # "HostDeviceNetwork"
    THEN TypeAssertionPanic(c)
    ELSE
    LET m == stateHostDeviceNetwork_getManifestObjects(cr, env)
        netAttDef == m.objs[1]
        a == createOrUpdateObjs(
                 [i \in 1..Len(m.objs) |->
                    HostDevSetControllerReference(
                        cr, m.objs[i], FailsAt(env.fault, "hook", i))],
                 c, m.objs, env.fault)
        s == getSyncState(a.cluster, m.objs, env.fault)
        g == getObj(a.cluster, netAttDef, env.fault)
    IN  IF m.err # Nil
        THEN Result(HostDevRenderError(m.err).verdict, HostDevRenderError(m.err).err,
                    m.log, c, m)
        ELSE IF Len(m.objs) = 0
        THEN Result(HostDevNoObjects(m.err).verdict, HostDevNoObjects(m.err).err,
                    m.log, c, m)
        ELSE IF netAttDef.kind # "NetworkAttachmentDefinition"
        THEN Result(HostDevNoNetAttDef(m.err).verdict, HostDevNoNetAttDef(m.err).err,
                    m.log, c, m)
        ELSE IF a.err # Nil
        THEN Result(HostDevApplyError(a.err).verdict, HostDevApplyError(a.err).err,
                    m.log \o a.log, a.cluster, m)
        ELSE IF s.err # Nil
        THEN Result(HostDevSyncStateError(s.err).verdict, HostDevSyncStateError(s.err).err,
                    m.log \o a.log \o s.log, a.cluster, m)
        ELSE IF g.err # Nil
        THEN Result(HostDevGetObjError(g.err).verdict, HostDevGetObjError(g.err).err,
                    m.log \o a.log \o s.log \o g.log, a.cluster, m)
        ELSE Result(HostDevSynced(s.state).verdict, HostDevSynced(s.state).err,
                    m.log \o a.log \o s.log \o g.log, a.cluster, m)

-----------------------------------------------------------------------------
(* The state machine *)

\* no call's result is waiting for the control loop
NoSync ==
    [state |-> "none", cr |-> NoCR, verdict |-> SyncStateIgnore, err |-> Nil,
     log |-> <<>>, objs |-> <<>>, data |-> NoRenderData]

Called(state, cr, r) ==
    [state |-> state, cr |-> cr, verdict |-> r.verdict, err |-> r.err,
     log |-> r.log, objs |-> r.objs, data |-> r.data]

\* GetWatchSources has not been called
NoWatchSources == [state |-> "none", sources |-> [name \in {} |-> ""]]

\* no Sync pass runs beside the calls of the control loop
NoPasses == [start |-> [k \in ObjKeys |-> Absent], run |-> <<>>]

Init ==
    /\ cluster = [k \in ObjKeys |-> Absent]
    /\ lastSync = NoSync
    /\ watchSources = NoWatchSources
    /\ passes = NoPasses

\* the control loop calls Sync of the SR-IOV device plugin state
SriovDpSync(cr, env) ==
    LET r == stateSriovDp_Sync(cluster, cr, env)
    IN  /\ lastSync = NoSync
        /\ cluster' = r.cluster
        /\ lastSync' = Called("stateSriovDp", cr, r)
        /\ UNCHANGED <<watchSources, passes>>

\* the control loop calls Sync of the host-device network state
HostDeviceNetworkSync(cr, env) ==
    LET r == stateHostDeviceNetwork_Sync(cluster, cr, env)
    IN  /\ lastSync = NoSync
        /\ cluster' = r.cluster
        /\ lastSync' = Called("stateHostDeviceNetwork", cr, r)
        /\ UNCHANGED <<watchSources, passes>>

\* the control loop takes the verdict and the error of the call
Reconciled ==
    /\ lastSync # NoSync
    /\ lastSync' = NoSync
    /\ UNCHANGED <<cluster, watchSources, passes>>

\* between Sync calls the cluster's own controllers report on a stored object of a
\* kind that has a status
ObjectStatusChanges(k, status) ==
    /\ lastSync = NoSync
    /\ k.kind \in KnownKinds
    /\ cluster[k].exists
    /\ cluster[k].status # status
    /\ cluster' = [cluster EXCEPT ![k].status = status]
    /\ UNCHANGED <<lastSync, watchSources, passes>>

Next ==
    \/ \E cr \in NicClusterPolicies :
          \E env \in IF cr.SriovDevicePlugin = NilPtr THEN {NothingAsked} ELSE SriovDpEnvs :
             SriovDpSync(cr, env)
    \/ \E cr \in HostDeviceNetworks, env \in HostDevEnvs : HostDeviceNetworkSync(cr, env)
    \/ Reconciled
    \/ \E k \in ObjKeys, status \in Conditions : ObjectStatusChanges(k, status)

Spec == Init /\ [][Next]_vars

-----------------------------------------------------------------------------
(* Properties of a Sync call.  A step that leaves lastSync' # NoSync is a   *)
(* Sync call: cluster is the cluster before it, cluster' the cluster after. *)

Returned == lastSync # NoSync

Wrote(log) == \E i \in 1..Len(log) : log[i].op \in WriteOps /\ log[i].ok

ApplyFailed(log) ==
    \/ Failed(log, "SetControllerReference")
    \/ Failed(log, "Get")
    \/ Failed(log, "Create")
    \/ Failed(log, "Update")

ApplyReached(log) == "SetControllerReference" \in Ops(log)

\* C1: a Sync of the SR-IOV device plugin state for a NicClusterPolicy whose
\* SriovDevicePlugin is nil returns (Ignore, nil), calls no collaborator (no
\* InfoCatalog query, no Renderer call, no cluster API call) and leaves the
\* cluster as it was.
C1_NilDevicePluginIgnored ==
    [][(/\ lastSync' # NoSync
        /\ lastSync'.state = "stateSriovDp"
        /\ lastSync'.cr.SriovDevicePlugin = NilPtr)
         => (/\ lastSync'.verdict = SyncStateIgnore
             /\ lastSync'.err = Nil
             /\ lastSync'.log = <<>>
             /\ cluster' = cluster)]_vars

C1_Witness ==
    /\ Returned
    /\ lastSync.state = "stateSriovDp"
    /\ lastSync.cr.SriovDevicePlugin = NilPtr
    /\ lastSync.cr.OFEDDriver # NilPtr
    /\ lastSync.verdict = SyncStateIgnore
    /\ \E k \in ObjKeys : cluster[k].exists

\* C2: whenever the Renderer's RenderObjects call fails, Sync returns the verdict
\* Error with a non-nil error and creates or updates no cluster object.
C2_RenderFailureIsError ==
    (Returned /\ Failed(lastSync.log, "RenderObjects"))
      => (/\ lastSync.verdict = SyncStateError
          /\ lastSync.err # Nil
          /\ ~Wrote(lastSync.log))

\* C3: when the Renderer succeeds with an empty sequence of objects, Sync returns
\* NotReady or Ignore with a nil error, never Error, and applies nothing.
C3_EmptyRenderIsNoError ==
    (Returned /\ Succeeded(lastSync.log, "RenderObjects") /\ lastSync.objs = <<>>)
      => (/\ lastSync.verdict \in {SyncStateNotReady, SyncStateIgnore}
          /\ lastSync.err = Nil
          /\ ~ApplyReached(lastSync.log))

\* C4 as claimed: when observation after a successful apply fails (the status
\* read fails, or the primary object cannot be re-read), Sync returns the
\* verdict Error with a non-nil error.
C4_ObservationFailureIsError ==
    (Returned /\ (Failed(lastSync.log, "getSyncState") \/ Failed(lastSync.log, "getObj")))
      => (lastSync.verdict = SyncStateError /\ lastSync.err # Nil)

\* C4 as amended: when the status read after a successful apply fails, Sync
\* returns NotReady with a non-nil error; when the primary object cannot be
\* re-read, Sync returns Error with a non-nil error; Ready is returned in
\* neither case.
C4_ObservationFailure ==
    Returned =>
      /\ Failed(lastSync.log, "getSyncState")
           => (lastSync.verdict = SyncStateNotReady /\ lastSync.err # Nil)
      /\ Failed(lastSync.log, "getObj")
           => (lastSync.verdict = SyncStateError /\ lastSync.err # Nil)

C4_Witness ==
    /\ Returned
    /\ lastSync.state = "stateSriovDp"
    /\ Len(lastSync.objs) = MaxObjs
    /\ ~ApplyFailed(lastSync.log)
    /\ Failed(lastSync.log, "getSyncState")

\* C5: whenever applying the rendered objects fails (the ownership hook fails,
\* or the cluster rejects a Get, Create or Update), Sync returns NotReady with a
\* non-nil error and calls neither the status aggregation nor the re-read of the
\* primary object.
C5_ApplyFailureIsNotReady ==
    (Returned /\ ApplyFailed(lastSync.log))
      => (/\ lastSync.verdict = SyncStateNotReady
          /\ lastSync.err # Nil
          /\ "getSyncState" \notin Ops(lastSync.log)
          /\ "getObj" \notin Ops(lastSync.log))

C5_Witness ==
    /\ Returned
    /\ lastSync.state = "stateHostDeviceNetwork"
    /\ Failed(lastSync.log, "Update")
    /\ Wrote(lastSync.log)
    /\ lastSync.verdict = SyncStateNotReady

NoNodesFound(log) ==
    \E i \in 1..Len(log) : log[i].op = "GetNodesAttributes" /\ log[i].idx = 0

\* C6: a Sync of the SR-IOV device plugin state with a non-nil SriovDevicePlugin
\* in which the node-attribute query returns no records returns (NotReady, nil),
\* never calls the Renderer and creates or updates no cluster object.
C6_NoNodesNotReady ==
    [][(/\ lastSync' # NoSync
        /\ lastSync'.state = "stateSriovDp"
        /\ lastSync'.cr.SriovDevicePlugin # NilPtr
        /\ NoNodesFound(lastSync'.log))
         => (/\ lastSync'.verdict = SyncStateNotReady
             /\ lastSync'.err = Nil
             /\ "RenderObjects" \notin Ops(lastSync'.log)
             /\ Ops(lastSync'.log) \cap ApiOps = {}
             /\ cluster' = cluster)]_vars

C6_Witness ==
    /\ Returned
    /\ lastSync.state = "stateSriovDp"
    /\ lastSync.cr.SriovDevicePlugin # NilPtr
    /\ NoNodesFound(lastSync.log)
    /\ lastSync.verdict = SyncStateNotReady
    /\ \E k \in ObjKeys : cluster[k].exists

AppliedAt(log, i) == \E j \in 1..Len(log) : log[j].op \in WriteOps /\ log[j].idx = i /\ log[j].ok

IsReady(c, obj) ==
    obj.kind \notin KnownKinds \/ (c[Key(obj)].exists /\ c[Key(obj)].status = "ready")

IsError(c, obj) ==
    obj.kind \in KnownKinds /\ c[Key(obj)].exists /\ c[Key(obj)].status = "error"

\* C7: every Sync call returns one verdict of Ready, NotReady, Error, Ignore, and
\* it returns Ready only if every object of the rendered set was applied in this
\* call, exists in the cluster and is healthy (an object of a kind without a
\* readiness predicate counting as healthy).
C7_ReadyOnlyIfAllHealthy ==
    Returned =>
      /\ lastSync.verdict \in SyncStates
      /\ lastSync.verdict = SyncStateReady =>
           \A i \in 1..Len(lastSync.objs) :
              /\ AppliedAt(lastSync.log, i)
              /\ cluster[Key(lastSync.objs[i])].exists
              /\ IsReady(cluster, lastSync.objs[i])

C7_Witness ==
    /\ Returned
    /\ lastSync.verdict = SyncStateReady
    /\ Len(lastSync.objs) = MaxObjs
    /\ \A i \in 1..Len(lastSync.objs) : lastSync.objs[i].kind \in KnownKinds
    /\ lastSync.objs[1] # lastSync.objs[2]

\* C8: every object a Sync call creates or updates is stored with a controller
\* owner reference to the custom resource of that call (kind, name and UID), and
\* the ownership hook has run on it, successfully, before the write.
C8_WrittenObjectsAreOwned ==
    Returned =>
      \A j \in 1..Len(lastSync.log) :
         (lastSync.log[j].op \in WriteOps /\ lastSync.log[j].ok) =>
            /\ cluster[Key(lastSync.objs[lastSync.log[j].idx])].owner
                 = [kind |-> lastSync.cr.kind, name |-> lastSync.cr.name,
                    uid |-> lastSync.cr.uid, controller |-> TRUE]
            /\ \E h \in 1..(j - 1) :
                  /\ lastSync.log[h].op = "SetControllerReference"
                  /\ lastSync.log[h].idx = lastSync.log[j].idx
                  /\ lastSync.log[h].ok

\* an object owned by the other custom resource was updated and is now owned by
\* the caller's
C8_Witness ==
    /\ Returned
    /\ lastSync.state = "stateSriovDp"
    /\ ~ApplyFailed(lastSync.log)
    /\ Succeeded(lastSync.log, "Update")
    /\ Succeeded(lastSync.log, "Create")
    /\ \E k \in ObjKeys : cluster[k].exists /\ cluster[k].owner.kind = "HostDeviceNetwork"

\* the same call again: same custom resource, same rendered set, no failing call
Again(c, call) ==
    IF call.state = "stateSriovDp"
    THEN stateSriovDp_Sync(c, call.cr,
             [provider |-> TRUE, attrs |-> <<[OSName |-> "ubuntu"]>>,
              render |-> Rendered(call.objs), fault |-> NoFault])
    ELSE stateHostDeviceNetwork_Sync(c, call.cr,
             [render |-> Rendered(call.objs), fault |-> NoFault])

\* C9: apply is idempotent.  After a Sync call whose apply succeeded, the same
\* call again (no external change in between) reports no apply error and leaves
\* the cluster as the first call left it; after a Sync call whose apply failed
\* part-way, the same call again applies the full rendered set without error and
\* reaches the cluster that the apply would have reached without the failure.
C9_ApplyIdempotent ==
    /\ [](Returned /\ ApplyReached(lastSync.log)
            => LET again == Again(cluster, lastSync)
               IN  /\ ~ApplyFailed(again.log)
                   /\ \A i \in 1..Len(lastSync.objs) : AppliedAt(again.log, i)
                   /\ ~ApplyFailed(lastSync.log) => again.cluster = cluster)
    /\ [][(lastSync' # NoSync /\ ApplyFailed(lastSync'.log))
            => Again(cluster', lastSync').cluster = Again(cluster, lastSync').cluster]_vars

\* a call whose apply failed at the second object after creating the first
C9_Witness ==
    /\ Returned
    /\ ApplyFailed(lastSync.log)
    /\ Succeeded(lastSync.log, "Create")
    /\ Again(cluster, lastSync).cluster # cluster

\* C10: when apply and observation succeed, Sync returns a nil error and the
\* verdict of the reduction over the rendered set: Error if any object is in an
\* error condition, else Ready if every object is ready (objects of unknown kind
\* counting as ready), else NotReady; and the call changes no stored object's
\* status and no object outside the rendered set.
C10_AggregatedVerdict ==
    [][(/\ lastSync' # NoSync
        /\ Succeeded(lastSync'.log, "getSyncState")
        /\ ~Failed(lastSync'.log, "getObj"))
         => LET objs == lastSync'.objs
                n == Len(objs)
            IN  /\ lastSync'.err = Nil
                /\ lastSync'.verdict =
                     IF \E i \in 1..n : IsError(cluster', objs[i]) THEN SyncStateError
                     ELSE IF \A i \in 1..n : IsReady(cluster', objs[i]) THEN SyncStateReady
                     ELSE SyncStateNotReady
                /\ \A k \in ObjKeys :
                      /\ cluster[k].exists => cluster'[k].status = cluster[k].status
                      /\ (\A i \in 1..n : Key(objs[i]) # k) => cluster'[k] = cluster[k]]_vars

\* one object ready and one in an error condition: Error
C10_Witness ==
    /\ Returned
    /\ lastSync.state = "stateHostDeviceNetwork"
    /\ lastSync.verdict = SyncStateError
    /\ lastSync.err = Nil
    /\ Succeeded(lastSync.log, "getObj")
    /\ \E i, j \in 1..Len(lastSync.objs) :
          /\ IsReady(cluster, lastSync.objs[i])
          /\ IsError(cluster, lastSync.objs[j])

-----------------------------------------------------------------------------
(* Resource names: the host-device network state called with resource      *)
(* names of every shape around the prefix: none of it, part of it, all of  *)
(* it, twice it, each followed by up to MaxNameLen more characters.        *)

\* most characters after the head of a resource name
MaxNameLen == 2

NameChars == {"n", "/", "0"}

NameHeads ==
    {SubSeq(resourceNamePrefix, 1, k) : k \in 0..Len(resourceNamePrefix)}
      \cup {resourceNamePrefix \o resourceNamePrefix}

NamedHostDeviceNetworks ==
    [kind : {"HostDeviceNetwork"}, name : {"hostdev-net"}, uid : {"uid-hdn"},
     ResourceName : {h \o t : h \in NameHeads, t \in SeqsUpTo(NameChars, MaxNameLen)}]

NameEnvs ==
    {[render |-> RenderFailure, fault |-> NoFault],
     [render |-> Rendered(<<[kind |-> "NetworkAttachmentDefinition", name |-> "obj",
                             owner |-> NoOwner]>>),
      fault |-> NoFault]}

NamesNext ==
    \/ \E cr \in NamedHostDeviceNetworks, env \in NameEnvs : HostDeviceNetworkSync(cr, env)
    \/ Reconciled

SpecNames == Init /\ [][NamesNext]_vars

StartsWithPrefix(str) ==
    /\ Len(str) >= Len(resourceNamePrefix)
    /\ \A i \in 1..Len(resourceNamePrefix) : str[i] = resourceNamePrefix[i]

\* C11: the ResourceName handed to the Renderer by the host-device network state
\* is the custom resource's ResourceName unchanged when that starts with
\* "nvidia.com/", and otherwise exactly one copy of the prefix followed by it;
\* normalising the result again gives the result.
C11_ResourceNameNormalized ==
    (Returned /\ lastSync.state = "stateHostDeviceNetwork") =>
       LET r == lastSync.cr.ResourceName
           out == lastSync.data.ResourceName
           n == Len(resourceNamePrefix)
       IN  /\ StartsWithPrefix(r) => out = r
           /\ ~StartsWithPrefix(r) =>
                /\ Len(out) = n + Len(r)
                /\ \A i \in 1..n : out[i] = resourceNamePrefix[i]
                /\ \A i \in 1..Len(r) : out[n + i] = r[i]
           /\ HostDevResourceName([lastSync.cr EXCEPT !.ResourceName = out]) = out

\* a name that misses the prefix by its last character
C11_Witness ==
    /\ Returned
    /\ lastSync.state = "stateHostDeviceNetwork"
    /\ ~StartsWithPrefix(lastSync.cr.ResourceName)
    /\ Len(lastSync.cr.ResourceName) > Len(resourceNamePrefix)
    /\ SubSeq(lastSync.cr.ResourceName, 1, 10) = SubSeq(resourceNamePrefix, 1, 10)
    /\ lastSync.data.ResourceName = resourceNamePrefix \o lastSync.cr.ResourceName

-----------------------------------------------------------------------------

\* C12: a Sync of the SR-IOV device plugin state with a non-nil SriovDevicePlugin
\* for which GetNodeInfoProvider returns nil returns the verdict Error with a
\* non-nil error, and GetNodeInfoProvider is the only call it has made: no
\* node-attribute query, no Renderer call, no cluster API call.
C12_NoProviderIsError ==
    (/\ Returned
     /\ lastSync.state = "stateSriovDp"
     /\ lastSync.cr.SriovDevicePlugin # NilPtr
     /\ Failed(lastSync.log, "GetNodeInfoProvider"))
      => (/\ lastSync.verdict = SyncStateError
          /\ lastSync.err # Nil
          /\ Len(lastSync.log) = 1
          /\ Ops(lastSync.log) = {"GetNodeInfoProvider"}
          /\ lastSync.objs = <<>>)

C12_Witness ==
    /\ Returned
    /\ lastSync.state = "stateSriovDp"
    /\ lastSync.cr.SriovDevicePlugin # NilPtr
    /\ Failed(lastSync.log, "GetNodeInfoProvider")
    /\ lastSync.verdict = SyncStateError
    /\ \E k \in ObjKeys : cluster[k].exists

-----------------------------------------------------------------------------

-----------------------------------------------------------------------------
(* Convergence: both states are called again and again for an unchanged     *)
(* custom resource, render and apply succeed every time, and the cluster's  *)
(* controllers bring every stored object to ready and leave it there.       *)

LiveNicClusterPolicy ==
    [kind |-> "NicClusterPolicy", name |-> "nic-cluster-policy", uid |-> "uid-ncp",
     SriovDevicePlugin |-> "devicePluginSpec", OFEDDriver |-> NilPtr]

LiveHostDeviceNetwork ==
    [kind |-> "HostDeviceNetwork", name |-> "hostdev-net", uid |-> "uid-hdn",
     ResourceName |-> <<"i", "b", "0">>]

LiveSriovDpObjs ==
    <<[kind |-> "DaemonSet", name |-> "obj", owner |-> NoOwner],
      [kind |-> "ConfigMap", name |-> "obj", owner |-> NoOwner]>>

LiveHostDevObjs ==
    <<[kind |-> "NetworkAttachmentDefinition", name |-> "obj", owner |-> NoOwner]>>

\* any cluster the earlier calls and the cluster's controllers can have left
LiveInit ==
    /\ cluster \in [ObjKeys ->
                      {Absent} \cup [exists : {TRUE},
                                     owner : {OwnerRefOf(LiveNicClusterPolicy),
                                              OwnerRefOf(LiveHostDeviceNetwork)},
                                     status : Conditions]]
    /\ \A k \in ObjKeys : k.kind \notin KnownKinds => cluster[k].status = "notReady"
    /\ lastSync = NoSync
    /\ watchSources = NoWatchSources
    /\ passes = NoPasses

LiveSriovDpSync ==
    SriovDpSync(LiveNicClusterPolicy,
                [provider |-> TRUE, attrs |-> <<[OSName |-> "ubuntu"]>>,
                 render |-> Rendered(LiveSriovDpObjs), fault |-> NoFault])

LiveHostDeviceNetworkSync ==
    HostDeviceNetworkSync(LiveHostDeviceNetwork,
                          [render |-> Rendered(LiveHostDevObjs), fault |-> NoFault])

ObjectBecomesHealthy(k) == ObjectStatusChanges(k, "ready")

LiveNext ==
    \/ LiveSriovDpSync
    \/ LiveHostDeviceNetworkSync
    \/ Reconciled
    \/ \E k \in ObjKeys : ObjectBecomesHealthy(k)

\* the control loop keeps taking the verdicts and keeps calling both states, and
\* every stored object that is not ready becomes ready
SpecLive ==
    /\ LiveInit
    /\ [][LiveNext]_vars
    /\ WF_vars(Reconciled)
    /\ SF_vars(\E k \in ObjKeys : ObjectBecomesHealthy(k))
    /\ []<>(lastSync.state = "stateSriovDp")
    /\ []<>(lastSync.state = "stateHostDeviceNetwork")

\* C14: a Sync call does not wait for health: when its apply succeeded and some
\* rendered object is not ready (and none is in an error condition) it returns
\* NotReady.  And when Sync is called again and again for an unchanged custom
\* resource, with render and apply succeeding and every object becoming and
\* staying ready, some call of each state returns Ready, and from some point on
\* every call returns Ready.
C14_Converges ==
    /\ [](Returned /\ Succeeded(lastSync.log, "getSyncState")
            /\ (\E i \in 1..Len(lastSync.objs) : ~IsReady(cluster, lastSync.objs[i]))
            /\ (\A i \in 1..Len(lastSync.objs) : ~IsError(cluster, lastSync.objs[i]))
            => lastSync.verdict = SyncStateNotReady)
    /\ []<>(Returned /\ lastSync.state = "stateSriovDp"
              /\ lastSync.verdict = SyncStateReady)
    /\ []<>(Returned /\ lastSync.state = "stateHostDeviceNetwork"
              /\ lastSync.verdict = SyncStateReady)
    /\ <>[](Returned => lastSync.verdict = SyncStateReady)

\* a call that returned NotReady at once, for a DaemonSet it had just created
C14_Witness ==
    /\ Returned
    /\ lastSync.state = "stateSriovDp"
    /\ Succeeded(lastSync.log, "Create")
    /\ lastSync.verdict = SyncStateNotReady
    /\ lastSync.err = Nil

-----------------------------------------------------------------------------
(* Sync takes its custom resource as interface{}: the caller can hand either *)
(* state either kind of custom resource.                                     *)

AnyCustomResources == NicClusterPolicies \cup HostDeviceNetworks

AnySriovDpEnvs ==
    {[provider |-> TRUE, attrs |-> <<[OSName |-> "ubuntu"]>>, render |-> r, fault |-> NoFault] :
        r \in {RenderFailure} \cup {Rendered(objs) : objs \in SeqsUpTo(RenderableObjs, MaxObjs)}}

AnyHostDevEnvs ==
    {[render |-> r, fault |-> NoFault] :
        r \in {RenderFailure} \cup {Rendered(objs) : objs \in SeqsUpTo(RenderableObjs, MaxObjs)}}

\* a panic that nothing recovers ends the process
ReconciledUnlessPanicked == lastSync.verdict # Panicked /\ Reconciled

AnyCRNext ==
    \/ \E cr \in AnyCustomResources :
          \E env \in IF cr.kind = "NicClusterPolicy" /\ cr.SriovDevicePlugin # NilPtr
                     THEN AnySriovDpEnvs ELSE {NothingAsked} :
             SriovDpSync(cr, env)
    \/ \E cr \in AnyCustomResources :
          \E env \in IF cr.kind = "HostDeviceNetwork"
                     THEN AnyHostDevEnvs ELSE {[render |-> RenderFailure, fault |-> NoFault]} :
             HostDeviceNetworkSync(cr, env)
    \/ ReconciledUnlessPanicked

SpecAnyCR == Init /\ [][AnyCRNext]_vars

\* C15: Sync never panics, whatever custom resource it is given, and a call
\* touches nothing but the objects it rendered: a call that wrote nothing (one
\* that failed with Error before its apply among them) leaves the cluster as an
\* omitted call would, and a call that wrote leaves every other object as it was.
C15_IsolatedNeverPanics ==
    /\ [](Returned => lastSync.verdict \in SyncStates)
    /\ [][lastSync' # NoSync =>
            /\ ~Wrote(lastSync'.log) => cluster' = cluster
            /\ \A k \in ObjKeys :
                  (\A i \in 1..Len(lastSync'.objs) : Key(lastSync'.objs[i]) # k)
                     => cluster'[k] = cluster[k]]_vars

-----------------------------------------------------------------------------
(* GetWatchSources, called by the control loop at any time *)

stateSriovDp_GetWatchSources_WithConfigMap ==
    [name \in {"DaemonSet", "ConfigMap"} |-> "appsv1." \o name]

stateSriovDp_GetWatchSources ==
    [name \in {"DaemonSet"} |-> "appsv1.DaemonSet"]

stateHostDeviceNetwork_GetWatchSources ==
    [name \in {"HostDeviceNetwork", "NetworkAttachmentDefinition"} |->
        IF name = "HostDeviceNetwork"
        THEN "mellanoxv1alpha1.HostDeviceNetwork"
        ELSE "netattdefv1.NetworkAttachmentDefinition"]

\* the call builds a new map and returns it; it reads and writes nothing else
SriovDpGetWatchSources ==
    /\ watchSources' = [state |-> "stateSriovDp", sources |-> stateSriovDp_GetWatchSources]
    /\ UNCHANGED <<cluster, lastSync, passes>>

HostDeviceNetworkGetWatchSources ==
    /\ watchSources' = [state |-> "stateHostDeviceNetwork",
                        sources |-> stateHostDeviceNetwork_GetWatchSources]
    /\ UNCHANGED <<cluster, lastSync, passes>>

WatchNext ==
    \/ \E cr \in NicClusterPolicies :
          \E env \in IF cr.SriovDevicePlugin = NilPtr THEN {NothingAsked} ELSE AnySriovDpEnvs :
             SriovDpSync(cr, env)
    \/ \E cr \in HostDeviceNetworks, env \in AnyHostDevEnvs : HostDeviceNetworkSync(cr, env)
    \/ Reconciled
    \/ SriovDpGetWatchSources
    \/ HostDeviceNetworkGetWatchSources

SpecWatch == Init /\ [][WatchNext]_vars

\* C16: whenever GetWatchSources is called (before the first Sync, between Sync
\* calls, after a failed Sync) it returns exactly the keys HostDeviceNetwork and
\* NetworkAttachmentDefinition for the host-device network state and exactly the
\* key DaemonSet for the SR-IOV device plugin state, and the call changes no
\* cluster object and nothing that a Sync call reads or returns.
C16_WatchSourcesConstant ==
    /\ [](watchSources.state = "stateSriovDp"
            => DOMAIN watchSources.sources = {"DaemonSet"})
    /\ [](watchSources.state = "stateHostDeviceNetwork"
            => DOMAIN watchSources.sources = {"HostDeviceNetwork", "NetworkAttachmentDefinition"})
    /\ [][watchSources' # watchSources => cluster' = cluster /\ lastSync' = lastSync]_vars

\* GetWatchSources of the SR-IOV device plugin state called right after a Sync
\* of that state failed, the cluster holding objects of earlier calls
C16_Witness ==
    /\ watchSources.state = "stateSriovDp"
    /\ Returned
    /\ lastSync.state = "stateSriovDp"
    /\ lastSync.verdict = SyncStateNotReady
    /\ lastSync.err # Nil
    /\ \E k \in ObjKeys : cluster[k].exists

-----------------------------------------------------------------------------
(* Two Sync passes for unrelated resources whose apply steps run at the same *)
(* time: every hook, Get, Create and Update is a step of its own, and the    *)
(* steps of the two passes interleave in any order.  No lock is taken.       *)

ConcSriovDpObjs == {o \in RenderableObjs : o.kind \in {"DaemonSet", "ConfigMap"}}

ConcHostDevObjs == {o \in RenderableObjs : o.kind = "NetworkAttachmentDefinition"}

\* a pass at the start of its apply step
Pass(state, cr, objs) ==
    [state |-> state, cr |-> cr, objs |-> objs, i |-> 1, stage |-> "hook",
     obj |-> [kind |-> "", name |-> "", owner |-> NoOwner], found |-> FALSE, err |-> Nil]

\* the ownership hook of the pass's state
PassHooked(p, obj) ==
    IF p.state = "stateSriovDp"
    THEN SriovDpSetControllerReference(p.cr, obj, FALSE)
    ELSE HostDevSetControllerReference(p.cr, obj, FALSE)

PassDone(p) == p.err # Nil \/ p.i > Len(p.objs)

\* objects left by earlier Sync calls of the same two resources
ConcStored(k) ==
    {Absent,
     [exists |-> TRUE, owner |-> NoOwner, status |-> "notReady"],
     [exists |-> TRUE, status |-> "ready",
      owner |-> IF k.kind = "NetworkAttachmentDefinition"
                THEN OwnerRefOf(LiveHostDeviceNetwork)
                ELSE OwnerRefOf(LiveNicClusterPolicy)]}

ConcInit ==
    /\ cluster \in {c \in [ObjKeys -> UNION {ConcStored(k) : k \in ObjKeys}] :
                       \A k \in ObjKeys : c[k] \in ConcStored(k)}
    /\ lastSync = NoSync
    /\ watchSources = NoWatchSources
    /\ \E sriov \in SeqsUpTo(ConcSriovDpObjs, MaxObjs) \ {<<>>},
          hostdev \in SeqsUpTo(ConcHostDevObjs, 1) \ {<<>>} :
          passes = [start |-> cluster,
                    run |-> <<Pass("stateSriovDp", LiveNicClusterPolicy, sriov),
                              Pass("stateHostDeviceNetwork", LiveHostDeviceNetwork, hostdev)>>]

\* the pass runs the ownership hook on its next object
PassHook(n) ==
    LET p == passes.run[n]
        h == PassHooked(p, p.objs[p.i])
    IN  /\ ~PassDone(p)
        /\ p.stage = "hook"
        /\ passes' = [passes EXCEPT !.run[n] =
                        IF h.err # Nil
                        THEN [p EXCEPT !.err = Wrap(h.err, "failed to create resource")]
                        ELSE [p EXCEPT !.obj = h.obj, !.stage = "get"]]
        /\ UNCHANGED <<cluster, lastSync, watchSources>>

\* Get(kindedReference) -> object | NotFound
PassGet(n) ==
    LET p == passes.run[n]
    IN  /\ ~PassDone(p)
        /\ p.stage = "get"
        /\ passes' = [passes EXCEPT !.run[n] =
                        [p EXCEPT !.found = cluster[Key(p.obj)].exists, !.stage = "write"]]
        /\ UNCHANGED <<cluster, lastSync, watchSources>>

\* Update in place when the Get found the object, else Create, which the API
\* rejects when the object has appeared since the Get
PassWrite(n) ==
    LET p == passes.run[n]
        rejected == ~p.found /\ cluster[Key(p.obj)].exists
    IN  /\ ~PassDone(p)
        /\ p.stage = "write"
        /\ cluster' = IF rejected THEN cluster
                      ELSE [cluster EXCEPT ![Key(p.obj)] = Stored(cluster, p.obj)]
        /\ passes' = [passes EXCEPT !.run[n] =
                        IF rejected
                        THEN [p EXCEPT !.err = New("failed to create/update k8s object")]
                        ELSE [p EXCEPT !.i = p.i + 1, !.stage = "hook"]]
        /\ UNCHANGED <<lastSync, watchSources>>

ConcNext ==
    \/ \E n \in 1..2 : PassHook(n)
    \/ \E n \in 1..2 : PassGet(n)
    \/ \E n \in 1..2 : PassWrite(n)

SpecConc == ConcInit /\ [][ConcNext]_vars

\* the apply step of one pass run alone, from cluster c
AppliedAlone(c, p) ==
    createOrUpdateObjs([i \in 1..Len(p.objs) |-> PassHooked(p, p.objs[i])],
                       c, p.objs, NoFault).cluster

\* C17: two Sync passes for unrelated resources whose Get, Create and Update
\* calls interleave in any order, without a lock: no stored object is ever lost,
\* no pass fails, and when both passes are done every object of a pass is
\* stored, owned by that pass's custom resource, and the cluster is the one that
\* running the passes one after the other (in either order) reaches.
C17_ConcurrentPassesSafe ==
    /\ \A k \in ObjKeys : passes.start[k].exists => cluster[k].exists
    /\ \A n \in 1..2 : passes.run[n].err = Nil
    /\ (\A n \in 1..2 : PassDone(passes.run[n])) =>
          /\ \A n \in 1..2 : \A i \in 1..Len(passes.run[n].objs) :
                /\ cluster[Key(passes.run[n].objs[i])].exists
                /\ cluster[Key(passes.run[n].objs[i])].owner = OwnerRefOf(passes.run[n].cr)
          /\ cluster = AppliedAlone(AppliedAlone(passes.start, passes.run[1]), passes.run[2])
          /\ cluster = AppliedAlone(AppliedAlone(passes.start, passes.run[2]), passes.run[1])

\* both passes are done; one updated an object in place and the other created
\* one, and the first pass wrote two different objects
C17_Witness ==
    /\ \A n \in 1..2 : PassDone(passes.run[n])
    /\ \E k \in ObjKeys : passes.start[k].exists /\ cluster[k] # passes.start[k]
    /\ \E k \in ObjKeys : k.kind = "NetworkAttachmentDefinition"
                             /\ ~passes.start[k].exists /\ cluster[k].exists
    /\ Len(passes.run[1].objs) = 2
    /\ passes.run[1].objs[1] # passes.run[1].objs[2]

-----------------------------------------------------------------------------
\* the position in the log of the apply call that failed
ApplyOps == {"SetControllerReference"} \cup ApiOps

FailedAt(log) == CHOOSE j \in 1..Len(log) : ~log[j].ok /\ log[j].op \in ApplyOps

\* C18: the apply step takes the rendered objects in rendered order and stops at
\* the first failure.  When the hook, the Get or the write of the object at
\* index i fails, Sync reports the failure (NotReady with an error), the failed
\* call is the last call of the Sync, the object at index i is not written, no
\* object at a higher index is passed to the hook, read or written, every object
\* at a lower index has been written with its owner reference, and the cluster
\* differs from the one before the call only at objects of lower indexes.
C18_ApplyShortCircuits ==
    /\ [](Returned =>
            \A a, b \in 1..Len(lastSync.log) :
               (a < b /\ lastSync.log[a].op \in ApplyOps /\ lastSync.log[b].op \in ApplyOps)
                  => lastSync.log[a].idx <= lastSync.log[b].idx)
    /\ [](Returned /\ ApplyFailed(lastSync.log) =>
            LET log == lastSync.log
                objs == lastSync.objs
                i == log[FailedAt(log)].idx
            IN  /\ lastSync.err # Nil
                /\ lastSync.verdict = SyncStateNotReady
                /\ FailedAt(log) = Len(log)
                /\ i \in 1..Len(objs)
                /\ ~AppliedAt(log, i)
                /\ \A j \in 1..Len(log) : log[j].op \in ApplyOps => log[j].idx <= i
                /\ \A h \in 1..(i - 1) :
                      /\ AppliedAt(log, h)
                      /\ cluster[Key(objs[h])].exists
                      /\ cluster[Key(objs[h])].owner = OwnerRefOf(lastSync.cr))
    /\ [][(lastSync' # NoSync /\ ApplyFailed(lastSync'.log)) =>
            \A k \in ObjKeys :
               (\A h \in 1..(lastSync'.log[FailedAt(lastSync'.log)].idx - 1) :
                   Key(lastSync'.objs[h]) # k)
                 => cluster'[k] = cluster[k]]_vars

\* the write of the second of two different objects failed: the first is
\* stored and owned, the second is not stored
C18_Witness ==
    /\ Returned
    /\ Len(lastSync.objs) = 2
    /\ Failed(lastSync.log, "Create")
    /\ AppliedAt(lastSync.log, 1)
    /\ cluster[Key(lastSync.objs[1])].exists
    /\ ~cluster[Key(lastSync.objs[2])].exists

-----------------------------------------------------------------------------
\* C19: in every Sync result the verdict and the error agree: Error comes with a
\* non-nil error, Ready and Ignore come with a nil error; the host-device
\* network returns for an empty render result and for a first object that is
\* not a NetworkAttachmentDefinition are among them.
C19_VerdictAgreesWithError ==
    Returned =>
      /\ lastSync.verdict = SyncStateError => lastSync.err # Nil
      /\ lastSync.verdict \in {SyncStateReady, SyncStateIgnore} => lastSync.err = Nil

-----------------------------------------------------------------------------
\* C20: a Sync of the host-device network state whose first rendered object is
\* not a NetworkAttachmentDefinition returns the verdict Error without reaching
\* the apply step: no object of the rendered set is passed to the ownership
\* hook, read, created or updated, and the cluster is left as it was, also when
\* a later object of the sequence is a NetworkAttachmentDefinition.
C20_PrimaryValidatedBeforeApply ==
    /\ [](Returned /\ lastSync.state = "stateHostDeviceNetwork"
            /\ Len(lastSync.objs) > 0
            /\ lastSync.objs[1].kind # "NetworkAttachmentDefinition"
            => /\ lastSync.verdict = SyncStateError
               /\ \A j \in 1..Len(lastSync.log) : lastSync.log[j].op \notin ApplyOps
               /\ \A j \in 1..Len(lastSync.log) :
                     lastSync.log[j].op \notin {"getSyncState", "getObj"})
    /\ [][(/\ lastSync' # NoSync
           /\ lastSync'.state = "stateHostDeviceNetwork"
           /\ Len(lastSync'.objs) > 0
           /\ lastSync'.objs[1].kind # "NetworkAttachmentDefinition")
            => cluster' = cluster]_vars

\* a DaemonSet first and a NetworkAttachmentDefinition second, neither stored
C20_Witness ==
    /\ Returned
    /\ lastSync.state = "stateHostDeviceNetwork"
    /\ Len(lastSync.objs) = 2
    /\ lastSync.objs[1].kind = "DaemonSet"
    /\ lastSync.objs[2].kind = "NetworkAttachmentDefinition"
    /\ ~cluster[Key(lastSync.objs[2])].exists
    /\ lastSync.verdict = SyncStateError

====
